---- MODULE Spec2Model ----
(***************************************************************************)
(* Model of the NFL transaction pipeline: Spotrac scraper                  *)
(* (src/src/transaction_scraper.py), Google Sheets updater                 *)
(* (src/src/google_sheets_updater.py) and the daily automation             *)
(* (src/src/main.py).                                                      *)
(*                                                                         *)
(* Text.  A piece of text is the sequence of its lexemes (tokens): maximal *)
(* runs of characters other than white space, parentheses and commas, and  *)
(* the marks "(" ")" "," themselves.  White space between lexemes is       *)
(* implied (one blank; none before a comma).  Each token of the vocabulary *)
(* has its characters in the table Chars, so that lower(), the substring   *)
(* test `in` and int() are computed on characters.                         *)
(***************************************************************************)
EXTENDS Integers, Sequences, FiniteSets, TLC

VARIABLES
    \* ---- the process and its environment
    seed,        \* hash key of the running Python process (PYTHONHASHSEED)
    now,         \* the clock, in ticks (TicksPerDay ticks a day)
    \* ---- one call of classify_transaction / parse_transaction_line /
    \*      parse_transaction_text on a drawn input
    inDate,      \* the date part of the line (tokens)
    inDesc,      \* the description part of the line (tokens)
    inPlayer,    \* the player argument (or PyNone)
    inPosition,  \* the position argument (or PyNone)
    viaText,     \* TRUE: the call goes through parse_transaction_text
    caseMode,    \* letter case the description is presented in
    out,         \* what the latest call returned: a record, NoRecord, NotCalled
    prevOut      \* what the call before it returned

parseVars == <<inDate, inDesc, inPlayer, inPosition, viaText, caseMode, out, prevOut>>

VARIABLES
    \* ---- the environment of the pipeline
    page,        \* the content the source serves: [elements, lines]
    sheetsOn,    \* TRUE: self.sheets_updater is set (credentials configured)
    ws,          \* the worksheet NFL_Transactions: [exists, rows]
    meta,        \* the worksheet Metadata: [exists, rows]
    csv,         \* the CSV files written: a set of [name, rows]
    \* ---- one run of run_daily_automation
    pc,          \* where the run stands
    attempts,    \* calls of session.get made by the run
    failure,     \* the error that ended the run, "none" if none
    raw,         \* raw_transactions: what fetch_transactions returned
    df,          \* transactions_df: what get_daily_transactions returned
    existing,    \* existing_ids read by filter_new_transactions
    newDf,       \* new_df: what filter_new_transactions returned
    added,       \* added_count: what append_transactions returned
    results,     \* the results dictionary of the run
    \* ---- the caller
    runs,        \* runs started so far
    log          \* the outcome of every finished run, in order

VARIABLES
    \* ---- run_historical_backfill
    bfpc,          \* where the backfill stands, "off" when none is running
    current_date,  \* the date the loop is at (a day number)
    end_date_obj,  \* the last date of the range (a day number)
    events         \* the runs the loop started and the delays it made, in order

VARIABLES
    \* ---- one call of parse_spotrac_page, line by line
    soup,              \* the texts of the elements find_all returned
    lines,             \* html_content.split('\n'), stripped
    ppc,               \* where the call stands, "off" when none is made
    line_no,           \* lines the loop of parse_text_patterns has read
    current_player,    \* the pending player (or PyNone)
    current_position,  \* the pending position (or PyNone)
    transactions       \* the list the call is building

VARIABLES
    \* ---- a second process_daily_update on the same spreadsheet
    peer         \* [pc, df, existing, new_df], [pc |-> "off"] when there is none

envVars == <<page, sheetsOn, ws, meta, csv>>
runVars == <<pc, attempts, failure, raw, df, existing, newDf, added, results>>
bfVars == <<bfpc, current_date, end_date_obj, events>>
scanVars == <<soup, lines, ppc, line_no, current_player, current_position, transactions>>
peerVars == <<peer>>
pipeVars == <<envVars, runVars, runs, log, bfVars, scanVars, peerVars>>

-----------------------------------------------------------------------------
(* Bounds of the model *)

MaxDescWords == 2     \* words of a generated description
NumKeys == 2          \* hash keys a process start can draw
MaxPageLen == 2       \* elements of a source page
MaxRuns == 2          \* runs of the pipeline in one behaviour
MaxTicks == 1         \* clock ticks in one behaviour
MaxBackfillDays == 2  \* calendar dates a backfill range is drawn from
MaxLines == 3         \* lines of a content without structure

-----------------------------------------------------------------------------
(* Characters *)

Chars ==
   "John" :> <<"J", "o", "h", "n">> @@
   "Doe" :> <<"D", "o", "e">> @@
   "Sam" :> <<"S", "a", "m">> @@
   "Roe" :> <<"R", "o", "e">> @@
   "QB" :> <<"Q", "B">> @@
   "WR" :> <<"W", "R">> @@
   "Jan" :> <<"J", "a", "n">> @@
   "Feb" :> <<"F", "e", "b">> @@
   "Mar" :> <<"M", "a", "r">> @@
   "Apr" :> <<"A", "p", "r">> @@
   "May" :> <<"M", "a", "y">> @@
   "Jun" :> <<"J", "u", "n">> @@
   "Jul" :> <<"J", "u", "l">> @@
   "Aug" :> <<"A", "u", "g">> @@
   "Sep" :> <<"S", "e", "p">> @@
   "Oct" :> <<"O", "c", "t">> @@
   "Nov" :> <<"N", "o", "v">> @@
   "Dec" :> <<"D", "e", "c">> @@
   "0" :> <<"0">> @@
   "3" :> <<"3">> @@
   "03" :> <<"0", "3">> @@
   "01" :> <<"0", "1">> @@
   "15" :> <<"1", "5">> @@
   "31" :> <<"3", "1">> @@
   "99" :> <<"9", "9">> @@
   "25" :> <<"2", "5">> @@
   "2025" :> <<"2", "0", "2", "5">> @@
   "2024" :> <<"2", "0", "2", "4">> @@
   "2028" :> <<"2", "0", "2", "8">> @@
   "," :> <<",">> @@
   "-" :> <<"-">> @@
   "(" :> <<"(">> @@
   ")" :> <<")">> @@
   "with" :> <<"w", "i", "t", "h">> @@
   "by" :> <<"b", "y">> @@
   "to" :> <<"t", "o">> @@
   "the" :> <<"t", "h", "e">> @@
   "a" :> <<"a">> @@
   "Pittsburgh" :> <<"P", "i", "t", "t", "s", "b", "u", "r", "g", "h">> @@
   "PIT" :> <<"P", "I", "T">> @@
   "Dallas" :> <<"D", "a", "l", "l", "a", "s">> @@
   "DAL" :> <<"D", "A", "L">> @@
   "XYZ" :> <<"X", "Y", "Z">> @@
   "Jets" :> <<"J", "e", "t", "s">> @@
   "Signed" :> <<"S", "i", "g", "n", "e", "d">> @@
   "signed" :> <<"s", "i", "g", "n", "e", "d">> @@
   "SIGNED" :> <<"S", "I", "G", "N", "E", "D">> @@
   "Re-signed" :> <<"R", "e", "-", "s", "i", "g", "n", "e", "d">> @@
   "extension" :> <<"e", "x", "t", "e", "n", "s", "i", "o", "n">> @@
   "Extension" :> <<"E", "x", "t", "e", "n", "s", "i", "o", "n">> @@
   "contract" :> <<"c", "o", "n", "t", "r", "a", "c", "t">> @@
   "Traded" :> <<"T", "r", "a", "d", "e", "d">> @@
   "Released" :> <<"R", "e", "l", "e", "a", "s", "e", "d">> @@
   "Waived" :> <<"W", "a", "i", "v", "e", "d">> @@
   "Claimed" :> <<"C", "l", "a", "i", "m", "e", "d">> @@
   "Suspended" :> <<"S", "u", "s", "p", "e", "n", "d", "e", "d">> @@
   "Retired" :> <<"R", "e", "t", "i", "r", "e", "d">> @@
   "Had" :> <<"H", "a", "d">> @@
   "great" :> <<"g", "r", "e", "a", "t">> @@
   "day" :> <<"d", "a", "y">> @@
   "year" :> <<"y", "e", "a", "r">> @@
   "through" :> <<"t", "h", "r", "o", "u", "g", "h">> @@
   "from" :> <<"f", "r", "o", "m">> @@
   "practice" :> <<"p", "r", "a", "c", "t", "i", "c", "e">> @@
   "squad" :> <<"s", "q", "u", "a", "d">> @@
   "2024-01-15T14:30:00Z" :> <<"2", "0", "2", "4", "-", "0", "1", "-", "1", "5", "T", "1", "4", ":", "3", "0", ":", "0", "0", "Z">> @@
   "2024-01-15T14:30:00.000Z" :> <<"2", "0", "2", "4", "-", "0", "1", "-", "1", "5", "T", "1", "4", ":", "3", "0", ":", "0", "0", ".", "0", "0", "0", "Z">> @@
   "2024-01-15" :> <<"2", "0", "2", "4", "-", "0", "1", "-", "1", "5">>

Vocab == DOMAIN Chars

UpperAlpha == <<"A","B","C","D","E","F","G","H","I","J","K","L","M",
                "N","O","P","Q","R","S","T","U","V","W","X","Y","Z">>
LowerAlpha == <<"a","b","c","d","e","f","g","h","i","j","k","l","m",
                "n","o","p","q","r","s","t","u","v","w","x","y","z">>
DigitChars == <<"0","1","2","3","4","5","6","7","8","9">>

\* str.lower() on one character
LowerChar(c) ==
    IF \E i \in 1..26 : UpperAlpha[i] = c
    THEN LowerAlpha[CHOOSE i \in 1..26 : UpperAlpha[i] = c]
    ELSE c

\* str.upper() on one character
UpperChar(c) ==
    IF \E i \in 1..26 : LowerAlpha[i] = c
    THEN UpperAlpha[CHOOSE i \in 1..26 : LowerAlpha[i] = c]
    ELSE c

IsDigitChar(c) == \E i \in 1..10 : DigitChars[i] = c
DigitValue(c) == (CHOOSE i \in 1..10 : DigitChars[i] = c) - 1

\* the characters of a text: its tokens joined by single blanks
RECURSIVE TextChars(_)
TextChars(text) ==
    IF text = <<>> THEN <<>>
    ELSE IF Len(text) = 1 THEN Chars[text[1]]
    ELSE Chars[text[1]] \o <<" ">> \o TextChars(Tail(text))

\* str.lower() and str.upper() of a sequence of characters
LowerChars(cs) == [i \in 1..Len(cs) |-> LowerChar(cs[i])]
UpperChars(cs) == [i \in 1..Len(cs) |-> UpperChar(cs[i])]

\* str.lower() of a text, as characters
LowerText(text) == LowerChars(TextChars(text))

\* needle in hay  (substring test on characters)
Contains(hay, needle) ==
    \E i \in 0..(Len(hay) - Len(needle)) :
        \A k \in 1..Len(needle) : hay[i + k] = needle[k]

\* token ends with the characters of suffix
EndsWith(tok, suffix) ==
    LET cs == Chars[tok] IN
    /\ Len(cs) >= Len(suffix)
    /\ \A k \in 1..Len(suffix) : cs[Len(cs) - Len(suffix) + k] = suffix[k]

\* \d+ over the whole token
IsDigits(tok) ==
    LET cs == Chars[tok] IN
    Len(cs) >= 1 /\ \A k \in 1..Len(cs) : IsDigitChar(cs[k])

\* int() of a sequence of digit characters
RECURSIVE IntOfChars(_)
IntOfChars(cs) ==
    IF cs = <<>> THEN 0
    ELSE 10 * IntOfChars(SubSeq(cs, 1, Len(cs) - 1)) + DigitValue(cs[Len(cs)])

\* the decimal digits of a natural number
RECURSIVE DecChars(_)
DecChars(n) ==
    IF n < 10 THEN <<DigitChars[n + 1]>>
    ELSE DecChars(n \div 10) \o <<DigitChars[(n % 10) + 1]>>

\* format specs :02d and :04d  (zero padding to a minimum width)
RECURSIVE ZeroPad(_, _)
ZeroPad(cs, width) ==
    IF Len(cs) >= width THEN cs ELSE ZeroPad(<<"0">> \o cs, width)

\* a sequence of characters as a string
RECURSIVE StrFrom(_, _)
StrFrom(cs, i) == IF i > Len(cs) THEN "" ELSE cs[i] \o StrFrom(cs, i + 1)

Str(cs) == CHOOSE s \in {StrFrom(x, 1) : x \in {cs}} : TRUE

\* the tokens of a text joined by sep, as a string
RECURSIVE JoinTokens(_, _)
JoinTokens(text, sep) ==
    IF text = <<>> THEN ""
    ELSE IF Len(text) = 1 THEN text[1]
    ELSE text[1] \o sep \o JoinTokens(Tail(text), sep)

\* Python's None where a text is expected, and where a record is expected
PyNone == <<"<None>">>
NoRecord == [none |-> TRUE]

\* truthiness of an optional text:  `x or default`
Truthy(x) == x # PyNone /\ x # <<>>

-----------------------------------------------------------------------------------------------------------------------------------------------------
(* classify_transaction *)

KwSigned    == <<"s","i","g","n","e","d">>
KwExtension == <<"e","x","t","e","n","s","i","o","n">>
KwTraded    == <<"t","r","a","d","e","d">>
KwReleased  == <<"r","e","l","e","a","s","e","d">>
KwWaived    == <<"w","a","i","v","e","d">>
KwClaimed   == <<"c","l","a","i","m","e","d">>
KwSuspended == <<"s","u","s","p","e","n","d","e","d">>
KwRetired   == <<"r","e","t","i","r","e","d">>
KwContract  == <<"c","o","n","t","r","a","c","t">>

\* classify_transaction with the general test for "signed" placed first
classify_signed_first(description) ==
    LET desc_lower == LowerChars(description) IN
    IF Contains(desc_lower, KwSigned) THEN "Signing"
    ELSE IF Contains(desc_lower, KwSigned) /\ Contains(desc_lower, KwExtension)
        THEN "Contract Extension"
    ELSE IF Contains(desc_lower, KwTraded) THEN "Trade"
    ELSE IF Contains(desc_lower, KwReleased) THEN "Release"
    ELSE IF Contains(desc_lower, KwWaived) THEN "Waiver"
    ELSE IF Contains(desc_lower, KwClaimed) THEN "Waiver Claim"
    ELSE IF Contains(desc_lower, KwSuspended) THEN "Suspension"
    ELSE IF Contains(desc_lower, KwRetired) THEN "Retirement"
    ELSE "Other"

\* description: the characters of the description
classify_transaction(description) ==
    LET desc_lower == LowerChars(description) IN
    IF Contains(desc_lower, KwSigned) /\ Contains(desc_lower, KwExtension)
        THEN "Contract Extension"
    ELSE IF Contains(desc_lower, KwSigned) THEN "Signing"
    ELSE IF Contains(desc_lower, KwTraded) THEN "Trade"
    ELSE IF Contains(desc_lower, KwReleased) THEN "Release"
    ELSE IF Contains(desc_lower, KwWaived) THEN "Waiver"
    ELSE IF Contains(desc_lower, KwClaimed) THEN "Waiver Claim"
    ELSE IF Contains(desc_lower, KwSuspended) THEN "Suspension"
    ELSE IF Contains(desc_lower, KwRetired) THEN "Retirement"
    ELSE "Other"

\* is_transaction_text
transaction_keywords ==
    <<KwSigned, KwReleased, KwTraded, KwWaived, KwClaimed,
      KwContract, KwExtension, KwSuspended, KwRetired>>

is_transaction_text(text) ==
    LET text_lower == LowerText(text) IN
    \E i \in 1..Len(transaction_keywords) :
        Contains(text_lower, transaction_keywords[i])

-----------------------------------------------------------------------------
(* parse_transaction_line *)

Months == <<"Jan","Feb","Mar","Apr","May","Jun","Jul","Aug","Sep","Oct","Nov","Dec">>

\* the month name a token ends with (the alternation matches at the end of a
\* lexeme, since \s+ must follow it), 0 if none
MonthOf(tok) ==
    IF \E i \in 1..12 : EndsWith(tok, Chars[Months[i]])
    THEN CHOOSE i \in 1..12 : EndsWith(tok, Chars[Months[i]])
    ELSE 0

\* (Jan|...|Dec)\s+(\d+),\s+(\d+)  matching with its month at token i
DateMatchAt(line, i) ==
    /\ i + 3 <= Len(line)
    /\ MonthOf(line[i]) # 0
    /\ IsDigits(line[i + 1])
    /\ line[i + 2] = ","
    /\ IsDigits(line[i + 3])

\* re.search: the leftmost match, 0 if there is none
DateMatch(line) ==
    IF \E i \in 1..Len(line) : DateMatchAt(line, i)
    THEN CHOOSE i \in 1..Len(line) :
            DateMatchAt(line, i) /\ \A j \in 1..(i - 1) : ~DateMatchAt(line, j)
    ELSE 0

\* line.find(' - '): the first dash standing between blanks, 0 if none (-1)
DashIndex(line) ==
    LET Is(i) == line[i] = "-" /\ 1 < i /\ i < Len(line) IN
    IF \E i \in 1..Len(line) : Is(i)
    THEN CHOOSE i \in 1..Len(line) : Is(i) /\ \A j \in 1..(i - 1) : ~Is(j)
    ELSE 0

\* index of the first token equal to mark after position i, 0 if none
FirstAfter(text, mark, i) ==
    IF \E j \in (i + 1)..Len(text) : text[j] = mark
    THEN CHOOSE j \in (i + 1)..Len(text) :
            text[j] = mark /\ \A k \in (i + 1)..(j - 1) : text[k] # mark
    ELSE 0

\* <word>\s+([^(]+)\s*\(([^)]+)\)  matching with <word> ending token i:
\* the first "(" after i is not the next token, and the first ")" after it
\* does not follow it directly
TeamMatchAt(description, word, i) ==
    LET j == FirstAfter(description, "(", i)
        k == FirstAfter(description, ")", j) IN
    /\ EndsWith(description[i], word)
    /\ j >= i + 2
    /\ k >= j + 2

\* re.search(...): <<i, j, k>> of the leftmost match, <<>> if none
TeamMatch(description, word) ==
    IF \E i \in 1..Len(description) : TeamMatchAt(description, word, i)
    THEN LET i == CHOOSE i \in 1..Len(description) :
                    /\ TeamMatchAt(description, word, i)
                    /\ \A h \in 1..(i - 1) : ~TeamMatchAt(description, word, h)
             j == FirstAfter(description, "(", i)
         IN <<i, j, FirstAfter(description, ")", j)>>
    ELSE <<>>

team_mapping ==
    "ARI" :> <<"Arizona", "Cardinals">> @@ "ATL" :> <<"Atlanta", "Falcons">> @@
    "BAL" :> <<"Baltimore", "Ravens">> @@ "BUF" :> <<"Buffalo", "Bills">> @@
    "CAR" :> <<"Carolina", "Panthers">> @@ "CHI" :> <<"Chicago", "Bears">> @@
    "CIN" :> <<"Cincinnati", "Bengals">> @@ "CLE" :> <<"Cleveland", "Browns">> @@
    "DAL" :> <<"Dallas", "Cowboys">> @@ "DEN" :> <<"Denver", "Broncos">> @@
    "DET" :> <<"Detroit", "Lions">> @@ "GB" :> <<"Green", "Bay", "Packers">> @@
    "HOU" :> <<"Houston", "Texans">> @@ "IND" :> <<"Indianapolis", "Colts">> @@
    "JAX" :> <<"Jacksonville", "Jaguars">> @@ "KC" :> <<"Kansas", "City", "Chiefs">> @@
    "LV" :> <<"Las", "Vegas", "Raiders">> @@ "LAC" :> <<"Los", "Angeles", "Chargers">> @@
    "LAR" :> <<"Los", "Angeles", "Rams">> @@ "MIA" :> <<"Miami", "Dolphins">> @@
    "MIN" :> <<"Minnesota", "Vikings">> @@ "NE" :> <<"New", "England", "Patriots">> @@
    "NO" :> <<"New", "Orleans", "Saints">> @@ "NYG" :> <<"New", "York", "Giants">> @@
    "NYJ" :> <<"New", "York", "Jets">> @@ "PHI" :> <<"Philadelphia", "Eagles">> @@
    "PIT" :> <<"Pittsburgh", "Steelers">> @@ "SF" :> <<"San", "Francisco", "49ers">> @@
    "SEA" :> <<"Seattle", "Seahawks">> @@ "TB" :> <<"Tampa", "Bay", "Buccaneers">> @@
    "TEN" :> <<"Tennessee", "Titans">> @@ "WAS" :> <<"Washington", "Commanders">>

\* team_mapping.get(team_abbr, team_full)
TeamOf(team_abbr, team_full) ==
    IF Len(team_abbr) = 1 /\ team_abbr[1] \in DOMAIN team_mapping
    THEN team_mapping[team_abbr[1]]
    ELSE team_full

-----------------------------------------------------------------------------
(* hash() and the transaction id *)

\* the printable ASCII characters in code order from 32 (the quote marks and
\* the backslash, which no token holds, stand as #<code>)
Ascii == <<
    " ", "!", "#34", "#", "$", "%", "&", "'", "(", ")", "*", "+", ",", "-",
    ".", "/", "0", "1", "2", "3", "4", "5", "6", "7", "8", "9", ":", ";",
    "<", "=", ">", "?", "@", "A", "B", "C", "D", "E", "F", "G", "H", "I",
    "J", "K", "L", "M", "N", "O", "P", "Q", "R", "S", "T", "U", "V", "W",
    "X", "Y", "Z", "[", "#92", "]", "^", "_", "#96", "a", "b", "c", "d",
    "e", "f", "g", "h", "i", "j", "k", "l", "m", "n", "o", "p", "q", "r",
    "s", "t", "u", "v", "w", "x", "y", "z", "{", "|", "}", "~">>

Ord(c) == 31 + (CHOOSE i \in 1..Len(Ascii) : Ascii[i] = c)

HashBits == 15        \* width of the modelled hash value
HashMul == 131        \* multiplier of the modelled hash

\* Python's hash() of a str: a keyed hash whose key is drawn when the process
\* starts (hash randomization); the hash of the empty string is 0 under every
\* key.  The keyed function is modelled by the polynomial hash
\*     h := key;  for c in s:  h := (h * HashMul + ord(c)) mod 2^HashBits
\* read as a signed number, and computed here by halving the string.
RECURSIVE PowMod(_)
PowMod(k) ==
    IF k = 0 THEN 1
    ELSE LET h == PowMod(k \div 2)
             sq == (h * h) % (2 ^ HashBits)
         IN IF k % 2 = 1 THEN (sq * HashMul) % (2 ^ HashBits) ELSE sq

RECURSIVE Poly(_, _, _)
Poly(cs, lo, hi) ==
    IF lo > hi THEN 0
    ELSE IF lo = hi THEN Ord(cs[lo])
    ELSE LET mid == (lo + hi) \div 2 IN
         (Poly(cs, lo, mid) * PowMod(hi - mid) + Poly(cs, mid + 1, hi))
            % (2 ^ HashBits)

HashFold(key, cs) ==
    (key * PowMod(Len(cs)) + Poly(cs, 1, Len(cs))) % (2 ^ HashBits)

\* a HashBits-bit value read as a signed number
AsSigned(u) == IF u >= 2 ^ (HashBits - 1) THEN u - 2 ^ HashBits ELSE u

PyHash(key, text) ==
    IF text = <<>> THEN 0 ELSE AsSigned(HashFold(key, TextChars(text)))

HashMod == 10000

\* f"SPOTRAC_{date_str}_{player.replace(' ', '_')}_{hash(description) % 10000:04d}"
TransactionId(key, date_str, player, description) ==
    "SPOTRAC_" \o Str(date_str) \o "_" \o JoinTokens(player, "_") \o "_"
        \o Str(ZeroPad(DecChars(PyHash(key, description) % HashMod), 4))

\* f"{year}-{month_num:02d}-{int(day):02d}", as characters
DateStr(year, month_num, day) ==
    Chars[year] \o <<"-">> \o ZeroPad(DecChars(month_num), 2) \o <<"-">>
        \o ZeroPad(DecChars(IntOfChars(Chars[day])), 2)

Unknown == <<"Unknown">>

\* parse_transaction_line(line, player, position) in a process with hash key
\* `key` at clock time `clock`: the record, or NoRecord for None
\* lines 220-231: the first of the two team patterns that matches
team_match(description) ==
    LET Or(a, b) == IF a # <<>> THEN a ELSE b IN
    Or(TeamMatch(description, <<"w","i","t","h">>),
       TeamMatch(description, <<"b","y">>))

\* lines 220-246: the team, the id and the record, for the date and the
\* description found in the line and the match of the team pattern
transaction_record(key, clock, date_str, description, tm, player, position) ==
    LET team_full == IF tm # <<>>
                     THEN SubSeq(description, tm[1] + 1, tm[2] - 1)
                     ELSE Unknown
        team_abbr == IF tm # <<>>
                     THEN SubSeq(description, tm[2] + 1, tm[3] - 1)
                     ELSE <<"UNK">>
    IN
      [ date           |-> date_str,
        type           |-> classify_transaction(TextChars(description)),
        team           |-> TeamOf(team_abbr, team_full),
        player         |-> IF Truthy(player) THEN player ELSE <<"Unknown", "Player">>,
        position       |-> IF Truthy(position) THEN position ELSE <<>>,
        description    |-> description,
        transaction_id |-> TransactionId(key, date_str, player, description),
        scraped_at     |-> clock,
        source         |-> "Spotrac" ]

\* lines 202-218 and 248-250, m the date match and dash_index the dash found:
\* no date, or no dash, returns None; player.replace on None raises, and the
\* except clause returns None
parse_line_at(key, clock, line, player, position, m, dash_index) ==
    IF m = 0 THEN NoRecord
    ELSE IF dash_index = 0 THEN NoRecord
    ELSE IF player = PyNone THEN NoRecord
    ELSE transaction_record(key, clock,
             DateStr(line[m + 3], MonthOf(line[m]), line[m + 1]),
             SubSeq(line, dash_index + 1, Len(line)),
             team_match(SubSeq(line, dash_index + 1, Len(line))),
             player, position)

parse_transaction_line(key, clock, line, player, position) ==
    parse_line_at(key, clock, line, player, position, DateMatch(line), DashIndex(line))

\* parse_transaction_text(text):  ^([^(]+)\s*\(([^)]+)\)  then the rest of the
\* text goes to parse_transaction_line
parse_transaction_text(key, clock, text) ==
    LET j == FirstAfter(text, "(", 0)
        k == FirstAfter(text, ")", j) IN
    IF ~(j >= 2 /\ k >= j + 2) THEN NoRecord
    ELSE parse_transaction_line(key, clock,
             SubSeq(text, k + 1, Len(text)),
             SubSeq(text, 1, j - 1), SubSeq(text, j + 1, k - 1))

-----------------------------------------------------------------------------
(* Calendar and clock *)

IsLeap(y) == (y % 4 = 0 /\ y % 100 # 0) \/ y % 400 = 0

DaysInMonth(y, m) ==
    IF m = 2 THEN (IF IsLeap(y) THEN 29 ELSE 28)
    ELSE IF m \in {4, 6, 9, 11} THEN 30 ELSE 31

\* days from 0001-01-01 (datetime's proleptic Gregorian ordinal)
Ordinal(y, m, d) ==
    LET y1 == y - 1
        before == [k \in 1..12 |->
                     IF k = 1 THEN 0
                     ELSE LET S[j \in 1..12] ==
                                IF j = 1 THEN 0 ELSE S[j - 1] + DaysInMonth(y, j - 1)
                          IN S[k]]
    IN y1 * 365 + (y1 \div 4) - (y1 \div 100) + (y1 \div 400) + before[m] + d

TicksPerDay == 2      \* clock resolution: midnight and midday

\* the clock at the start of a behaviour: midnight, start of 2025-07-08
Now0 == Ordinal(2025, 7, 8) * TicksPerDay

Keys == 1..NumKeys

-----------------------------------------------------------------------------------------------------------------------------------------------------------------------------------------------------------------------------
(* parse_spotrac_page and its two strategies *)

\* the non-None results of a sequence of parser results, in order
Parsed(returned) == SelectSeq(returned, LAMBDA r : r # NoRecord)

\* datetime.now() read while the i-th item of a page is parsed: the readings
\* of one run differ from item to item
Stamp(clock, i) == <<clock, i>>

\* parse_structured_elements(elements): elements are the stripped texts of the
\* page elements that soup.find_all returned
parse_structured_elements(key, clock, elements) ==
    Parsed([i \in 1..Len(elements) |->
              IF is_transaction_text(elements[i])
              THEN parse_transaction_text(key, Stamp(clock, i), elements[i])
              ELSE NoRecord])

\* Pattern 1:  ^([^(]+)\s*\(([^)]+)\)\s*$   <<j, k>> of the match, <<>> if none
PlayerMatch(line) ==
    LET j == FirstAfter(line, "(", 0)
        k == FirstAfter(line, ")", j) IN
    IF j >= 2 /\ k >= j + 2 /\ k = Len(line) THEN <<j, k>> ELSE <<>>

\* Pattern 2:  (Jan|...|Dec)\s+\d+,\s+\d+\s*-   somewhere in the line
DateDashMatch(line) ==
    \E i \in 1..Len(line) :
        /\ DateMatchAt(line, i)
        /\ i + 4 <= Len(line)
        /\ Chars[line[i + 4]][1] = "-"

\* the variant of the loop body that keeps the pending player and position
\* after a transaction line
scan_line_keep_pending(key, stamp, st, line) ==
    LET pm == PlayerMatch(line) IN
    IF line = <<>> THEN st
    ELSE IF pm # <<>>
      THEN <<st[1], SubSeq(line, 1, pm[1] - 1), SubSeq(line, pm[1] + 1, pm[2] - 1)>>
    ELSE IF Truthy(st[2]) /\ DateDashMatch(line)
      THEN <<st[1] \o Parsed(<<parse_transaction_line(key, stamp, line, st[2], st[3])>>),
             st[2], st[3]>>
    ELSE st

\* the body of the loop of parse_text_patterns (lines 144-162) for one
\* stripped line: st is <<transactions, current_player, current_position>>
\* before the line, the value is the three after it; stamp is the clock
\* reading of the line
scan_line(key, stamp, st, line) ==
    LET pm == PlayerMatch(line) IN
    IF line = <<>> THEN st
    ELSE IF pm # <<>>
      THEN <<st[1], SubSeq(line, 1, pm[1] - 1), SubSeq(line, pm[1] + 1, pm[2] - 1)>>
    ELSE IF Truthy(st[2]) /\ DateDashMatch(line)
      THEN <<st[1] \o Parsed(<<parse_transaction_line(key, stamp, line, st[2], st[3])>>),
             PyNone, PyNone>>
    ELSE st

\* parse_text_patterns(html_content): html_content is given as its stripped
\* lines.  Scan[i] is <<transactions, current_player, current_position>>
\* after i lines.
parse_text_patterns(key, clock, html_content) ==
    LET Scan[i \in 0..Len(html_content)] ==
          IF i = 0 THEN <<<<>>, PyNone, PyNone>>
          ELSE scan_line(key, Stamp(clock, i), Scan[i - 1], html_content[i])
    IN Scan[Len(html_content)][1]

\* parse_spotrac_page(soup, html_content): content.elements are the texts of
\* the elements find_all returned (empty when it found none), content.lines
\* the lines of the raw content
parse_spotrac_page(key, clock, content) ==
    LET OrText(structured) ==
          IF structured = <<>>
          THEN parse_text_patterns(key, clock, content.lines)
          ELSE structured
    IN OrText(IF content.elements # <<>>
              THEN parse_structured_elements(key, clock, content.elements)
              ELSE <<>>)

-----------------------------------------------------------------------------
(* fetch_transactions: the date window;  get_daily_transactions: the frame *)

days_back == 7

\* datetime.strptime(date, '%Y-%m-%d') on the date of a record (the month and
\* the day are always written with at least two digits there): <<y, m, d>>,
\* or <<>> where strptime raises ValueError
Strptime(date) ==
    IF /\ Len(date) = 10
       /\ date[5] = "-" /\ date[8] = "-"
       /\ \A i \in {1, 2, 3, 4, 6, 7, 9, 10} : IsDigitChar(date[i])
    THEN LET y == IntOfChars(SubSeq(date, 1, 4))
             m == IntOfChars(SubSeq(date, 6, 7))
             d == IntOfChars(SubSeq(date, 9, 10)) IN
         IF y >= 1 /\ m \in 1..12 /\ d >= 1 /\ d <= DaysInMonth(y, m)
         THEN <<y, m, d>> ELSE <<>>
    ELSE <<>>

\* the test of the filter loop: trans_date >= now - timedelta(days=days_back);
\* a date strptime cannot parse keeps the transaction
InWindow(transaction, clock) ==
    LET t == Strptime(transaction.date) IN
    \/ t = <<>>
    \/ Ordinal(t[1], t[2], t[3]) * TicksPerDay >= clock - days_back * TicksPerDay

\* fetch_transactions once the response has arrived
fetch_transactions(key, clock, content) ==
    SelectSeq(parse_spotrac_page(key, clock, content),
              LAMBDA tr : InWindow(tr, clock))

\* the variant df.drop_duplicates(..., keep='last'), to compare with
drop_duplicates_keep_last(rows) ==
    LET keep == {i \in 1..Len(rows) :
                    \A j \in (i + 1)..Len(rows) :
                        rows[j].transaction_id # rows[i].transaction_id}
    IN SelectSeq([i \in 1..Len(rows) |-> IF i \in keep THEN rows[i] ELSE NoRecord],
                 LAMBDA r : r # NoRecord)

\* df.drop_duplicates(subset=['transaction_id'], keep='first')
drop_duplicates(rows) ==
    LET keep == {i \in 1..Len(rows) :
                    \A j \in 1..(i - 1) : rows[j].transaction_id # rows[i].transaction_id}
        Pick[i \in 0..Len(rows)] ==
            IF i = 0 THEN <<>>
            ELSE IF i \in keep THEN Append(Pick[i - 1], rows[i]) ELSE Pick[i - 1]
    IN Pick[Len(rows)]

\* string comparison a < b on characters (code order)
StrLess(a, b) ==
    \E i \in 1..(Len(a) + 1) :
        /\ i <= Len(b)
        /\ \A k \in 1..(i - 1) : k <= Len(a) /\ a[k] = b[k]
        /\ (i = Len(a) + 1 \/ Ord(a[i]) < Ord(b[i]))

Perms(n) == {f \in [1..n -> 1..n] : \A i, j \in 1..n : f[i] = f[j] => i = j}

\* the variant sort_values('date') with the default ascending order
sort_values_asc(rows) ==
    {[i \in 1..Len(rows) |-> rows[f[i]]] : f \in
        {g \in Perms(Len(rows)) :
            \A i \in 1..(Len(rows) - 1) :
                ~StrLess(rows[g[i + 1]].date, rows[g[i]].date)}}

\* df.sort_values('date', ascending=False): the default sort is not stable, so
\* every arrangement with the dates non-increasing is a possible result
sort_values_desc(rows) ==
    {[i \in 1..Len(rows) |-> rows[f[i]]] : f \in
        {g \in Perms(Len(rows)) :
            \A i \in 1..(Len(rows) - 1) :
                ~StrLess(rows[g[i]].date, rows[g[i + 1]].date)}}

\* get_daily_transactions after the fetch: the possible DataFrames
get_daily_transactions(raw_transactions) ==
    IF raw_transactions # <<>>
    THEN sort_values_desc(drop_duplicates(raw_transactions))
    ELSE {<<>>}

-----------------------------------------------------------------------------
(* The worksheet *)

HeaderRow == [header |-> TRUE]

\* the row append_transactions writes for one DataFrame row
SheetRow(r) ==
    [date |-> r.date, type |-> r.type, team |-> r.team, player |-> r.player,
     description |-> r.description, transaction_id |-> r.transaction_id,
     scraped_at |-> r.scraped_at]

\* worksheet.col_values(6): column F of every row
col_values_F(rows) ==
    [i \in 1..Len(rows) |->
        IF rows[i] = HeaderRow THEN "Transaction ID" ELSE rows[i].transaction_id]

\* get_existing_transaction_ids, the read having succeeded
get_existing_transaction_ids(rows) ==
    LET values == col_values_F(rows) IN
    SelectSeq(SubSeq(values, 2, Len(values)), LAMBDA val : val # "")

InSeq(x, seq) == \E i \in 1..Len(seq) : seq[i] = x

\* the variant with an empty id list taken for "nothing new"
filter_nothing_new(frame, existing_ids) ==
    SelectSeq(frame, LAMBDA r : existing_ids # <<>>
                                  /\ ~InSeq(r.transaction_id, existing_ids))

\* filter_new_transactions, given the ids the read returned
filter_new_transactions(frame, existing_ids) ==
    IF existing_ids = <<>> THEN frame
    ELSE SelectSeq(frame, LAMBDA r : ~InSeq(r.transaction_id, existing_ids))

-----
(* Parser calls: the inputs drawn *)

DescWords ==
    {"Signed", "SIGNED", "Re-signed", "extension", "Traded", "Released",
     "Waived", "Claimed", "Suspended", "Retired", "contract", "day"}

Descriptions == UNION {[1..n -> DescWords] : n \in 0..MaxDescWords}

TextualDates ==
    { <<"Jul", "03", ",", "2025">>, <<"Jul", "3", ",", "2025">>,
      <<"Jan", "15", ",", "2024">>, <<"Dec", "31", ",", "2025">> }
IsoDates ==
    { <<"2024-01-15T14:30:00Z">>, <<"2024-01-15T14:30:00.000Z">>,
      <<"2024-01-15">> }
NoDates == { <<>>, <<"Jul", "2025">> }

DateForms == TextualDates \cup IsoDates \cup NoDates

TeamDescriptions ==
    { <<"Signed", "a", "3", "year", "contract", "extension", "through", "2028",
        "with", "Pittsburgh", "(", "PIT", ")">>,
      <<"Released", "by", "Dallas", "(", "DAL", ")">>,
      <<"Signed", "with", "Pittsburgh", "(", "XYZ", ")">>,
      <<"Signed", "with", "(", "PIT", ")">>,
      <<"Released", "from", "practice", "squad">>,
      <<"Traded", "to", "the", "Jets">>,
      <<"Had", "a", "great", "day">> }

DefaultDate == <<"Jul", "03", ",", "2025">>
DefaultDesc == <<"Signed", "with", "Pittsburgh", "(", "PIT", ")">>
DefaultPlayer == <<"John", "Doe">>
DefaultPosition == <<"QB">>

\* "<date> - <description>"
Candidate(date, desc) == date \o <<"-">> \o desc

\* "<player> (<position>) <line>", the text of one page element
ElementText(player, position, line) ==
    player \o <<"(">> \o position \o <<")">> \o line

Input(date, desc, player, position, via) ==
    [date |-> date, desc |-> desc, player |-> player, position |-> position,
     via |-> via]

Inputs ==
    {Input(f, d, DefaultPlayer, DefaultPosition, v) :
        f \in DateForms, d \in TeamDescriptions, v \in BOOLEAN}
    \cup {Input(DefaultDate, DefaultDesc, p, q, FALSE) :
        p \in {PyNone, <<>>, DefaultPlayer}, q \in {PyNone, <<>>, DefaultPosition}}
    \cup {Input(DefaultDate, DefaultDesc, DefaultPlayer, <<>>, TRUE)}

CaseModes == {"asis", "upper", "lower"}

ApplyCase(mode, cs) ==
    IF mode = "upper" THEN UpperChars(cs)
    ELSE IF mode = "lower" THEN LowerChars(cs)
    ELSE cs

NotCalled == [called |-> FALSE]
IsRecord(r) == r # NotCalled /\ r # NoRecord

\* the pipeline before its first run
NoSheet == [exists |-> FALSE, rows |-> <<>>]
BlankSheet == [exists |-> TRUE, rows |-> <<>>]
NoPage == [elements |-> <<>>, lines |-> <<>>]
NoResults == [success |-> FALSE]

RunIdle ==
    /\ pc = "idle"
    /\ attempts = 0
    /\ failure = "none"
    /\ raw = <<>>
    /\ df = <<>>
    /\ existing = <<>>
    /\ newDf = <<>>
    /\ added = 0
    /\ results = NoResults

NoDate == 0

BackfillOff ==
    /\ bfpc = "off"
    /\ current_date = NoDate
    /\ end_date_obj = NoDate
    /\ events = <<>>

\* no call of parse_spotrac_page is being followed
ScanOff ==
    /\ soup = <<>>
    /\ lines = <<>>
    /\ ppc = "off"
    /\ line_no = 0
    /\ current_player = PyNone
    /\ current_position = PyNone
    /\ transactions = <<>>

NoPeer == [pc |-> "off"]

PipelineIdle ==
    /\ BackfillOff
    /\ ScanOff
    /\ peer = NoPeer
    /\ page = NoPage
    /\ sheetsOn = FALSE
    /\ ws = NoSheet
    /\ meta = NoSheet
    /\ csv = {}
    /\ RunIdle
    /\ runs = 0
    /\ log = <<>>

ParseInit ==
    /\ seed \in Keys
    /\ now = Now0
    /\ \E inp \in Inputs :
        /\ inDate = inp.date
        /\ inDesc = inp.desc
        /\ inPlayer = inp.player
        /\ inPosition = inp.position
        /\ viaText = inp.via
    /\ caseMode = "asis"
    /\ out = NotCalled
    /\ prevOut = NotCalled
    /\ PipelineIdle

\* one call of the parser on the drawn input
ParseCall ==
    /\ out' = IF viaText
              THEN parse_transaction_text(seed, Stamp(now, 1),
                       ElementText(inPlayer, inPosition, Candidate(inDate, inDesc)))
              ELSE parse_transaction_line(seed, Stamp(now, 1), Candidate(inDate, inDesc),
                       inPlayer, inPosition)
    /\ prevOut' = out
    /\ UNCHANGED <<seed, now, inDate, inDesc, inPlayer, inPosition, viaText, caseMode>>
    /\ UNCHANGED pipeVars

\* the process ends and a new one starts: a new hash key is drawn
Restart ==
    /\ pc = "idle"
    /\ seed' \in Keys
    /\ UNCHANGED <<now, parseVars, pipeVars>>

\* time passes (between runs)
Tick ==
    /\ pc = "idle"
    /\ now < Now0 + MaxTicks
    /\ now' = now + 1
    /\ UNCHANGED <<seed, parseVars, pipeVars>>

vars == <<seed, now, parseVars, pipeVars>>

ParseNext == ParseCall \/ Restart \/ Tick

SpecParse == ParseInit /\ [][ParseNext]_vars

-----------------------------------------------------------------------------
(* classify_transaction on drawn descriptions *)

ClassifyInit ==
    /\ seed = 1
    /\ now = Now0
    /\ inDate = <<>>
    /\ inDesc \in Descriptions
    /\ inPlayer = PyNone
    /\ inPosition = PyNone
    /\ viaText = FALSE
    /\ caseMode \in CaseModes
    /\ out = NotCalled
    /\ prevOut = NotCalled
    /\ PipelineIdle

ClassifyCall ==
    /\ out = NotCalled
    /\ out' = [type |-> classify_transaction(ApplyCase(caseMode, TextChars(inDesc)))]
    /\ UNCHANGED <<seed, now, inDate, inDesc, inPlayer, inPosition, viaText,
                   caseMode, prevOut>>
    /\ UNCHANGED pipeVars

ClassifyNext == ClassifyCall

SpecClassify == ClassifyInit /\ [][ClassifyNext]_vars

-----------------------------------------------------------------------------
(* Claims about the parser *)

\* the date of clock time t, as characters YYYY-MM-DD
Today(t) ==
    CHOOSE cs \in
        {ZeroPad(DecChars(ymd[1]), 4) \o <<"-">> \o ZeroPad(DecChars(ymd[2]), 2)
           \o <<"-">> \o ZeroPad(DecChars(ymd[3]), 2) :
         ymd \in {x \in (2024..2026) \X (1..12) \X (1..31) :
                    /\ x[3] <= DaysInMonth(x[1], x[2])
                    /\ Ordinal(x[1], x[2], x[3]) = t \div TicksPerDay}} : TRUE

\* C2: two computations of transaction_id for the same candidate (date, player,
\* description) yield the identical string, also across process restarts and
\* at different processing times.
C2_IdentityStable ==
    (IsRecord(out) /\ IsRecord(prevOut))
        => out.transaction_id = prevOut.transaction_id

\* C6: in every emitted record no field is null or empty, and every field the
\* source omitted holds exactly "Unknown".
C6_Sentinel ==
    IsRecord(out) =>
        /\ out.date # <<>>
        /\ out.type # ""
        /\ out.team \notin {<<>>, PyNone}
        /\ out.player \notin {<<>>, PyNone}
        /\ out.position \notin {<<>>, PyNone}
        /\ out.description \notin {<<>>, PyNone}
        /\ out.transaction_id # ""
        /\ out.source # ""
        /\ (~Truthy(inPlayer) => out.player = Unknown)
        /\ (~Truthy(inPosition) => out.position = Unknown)

\* the priority order of the categories, as a table: keywords that must all
\* occur, and the label
ClassifyRules ==
    << <<{KwSigned, KwExtension}, "Contract Extension">>,
       <<{KwSigned}, "Signing">>,
       <<{KwTraded}, "Trade">>,
       <<{KwReleased}, "Release">>,
       <<{KwWaived}, "Waiver">>,
       <<{KwClaimed}, "Waiver Claim">>,
       <<{KwSuspended}, "Suspension">>,
       <<{KwRetired}, "Retirement">> >>

Labels == {ClassifyRules[i][2] : i \in 1..Len(ClassifyRules)} \cup {"Other"}

RuleMatches(i, cs) == \A kw \in ClassifyRules[i][1] : Contains(cs, kw)

ExpectedCategory(cs) ==
    IF \E i \in 1..Len(ClassifyRules) : RuleMatches(i, cs)
    THEN ClassifyRules[CHOOSE i \in 1..Len(ClassifyRules) :
            RuleMatches(i, cs) /\ \A j \in 1..(i - 1) : ~RuleMatches(j, cs)][2]
    ELSE "Other"

\* C7: classify_transaction returns the category of the first keyword test, in
\* the fixed priority order, that matches the lower-cased description, and
\* Other when none matches; the result is one of the nine labels and does not
\* depend on the letter case the description is presented in.
C7_ClassifyPriority ==
    out # NotCalled =>
        /\ out.type = ExpectedCategory(LowerChars(TextChars(inDesc)))
        /\ out.type \in Labels

C7_Witness ==
    /\ out # NotCalled
    /\ caseMode = "upper"
    /\ inDesc = <<"extension", "Re-signed">>
    /\ out.type = "Contract Extension"

\* the calendar date each recognised date form stands for
ExpectedDate(form) ==
    IF form \in {<<"Jul", "03", ",", "2025">>, <<"Jul", "3", ",", "2025">>}
        THEN Chars["2025"] \o <<"-", "0", "7", "-", "0", "3">>
    ELSE IF form = <<"Dec", "31", ",", "2025">>
        THEN Chars["2025"] \o <<"-", "1", "2", "-", "3", "1">>
    ELSE Chars["2024-01-15"]

\* C8: for every input date given as an ISO-8601 timestamp, a bare YYYY-MM-DD
\* date or a textual "<Mon> <day>, <year>" form, the emitted record's date is
\* the corresponding calendar date in canonical YYYY-MM-DD form.
C8_DateNormalized ==
    (out # NotCalled /\ Truthy(inPlayer) /\ inDate \in TextualDates \cup IsoDates)
        => (IsRecord(out) /\ out.date = ExpectedDate(inDate))

\* C9: a candidate that carries no recognisable date form (an empty date
\* included) is still emitted, with the processing date as its date.
C9_DateFallback ==
    (out # NotCalled /\ Truthy(inPlayer) /\ inDate \in NoDates)
        => (IsRecord(out) /\ out.date = Today(now))

-----------------------------------------------------------------------------
(* The pipeline: run_daily_automation, step by step *)

ElemA == ElementText(<<"John", "Doe">>, <<"QB">>,
            Candidate(<<"Jul", "03", ",", "2025">>,
                      <<"Signed", "with", "Pittsburgh", "(", "PIT", ")">>))
ElemB == ElementText(<<"Sam", "Roe">>, <<"WR">>,
            Candidate(<<"Jul", "01", ",", "2025">>,
                      <<"Released", "by", "Dallas", "(", "DAL", ")">>))
ElemC == ElementText(<<"Sam", "Roe">>, <<"WR">>,
            Candidate(<<"Jul", "03", ",", "2025">>,
                      <<"Released", "by", "Dallas", "(", "DAL", ")">>))

Elements == {ElemA, ElemB, ElemC}

\* a page without structure: an identity line and a transaction line
TextLines ==
    << <<"John", "Doe", "(", "QB", ")">>,
       Candidate(<<"Jul", "03", ",", "2025">>, <<"Traded", "to", "the", "Jets">>) >>

\* a page that lists one transaction twice
RepeatPage == <<ElemA, ElemB, ElemA>>

\* one player signed from the practice squad and waived on the same day
ElemSquad == ElementText(<<"John", "Doe">>, <<"QB">>,
                Candidate(<<"Jul", "03", ",", "2025">>,
                          <<"Signed", "from", "the", "practice", "squad">>))
ElemWaived == ElementText(<<"John", "Doe">>, <<"QB">>,
                Candidate(<<"Jul", "03", ",", "2025">>, <<"Waived">>))

\* a page that lists the two of them
SquadPage == <<ElemSquad, ElemWaived>>

Pages ==
    {[elements |-> e, lines |-> <<>>] :
        e \in UNION {[1..n -> Elements] : n \in 0..MaxPageLen}
                \cup {RepeatPage, SquadPage}}
    \cup {[elements |-> <<>>, lines |-> TextLines]}

\* the worksheet as an earlier run of this process left it, the page having
\* listed ElemB alone
EarlierSheet(key) ==
    [exists |-> TRUE,
     rows   |-> <<HeaderRow>> \o
                [i \in 1..1 |-> SheetRow(parse_structured_elements(key, Now0, <<ElemB>>)[i])]]

FetchFaults == {"timeout", "http5xx", "http4xx"}
TransientFaults == {"timeout", "http5xx"}

Init ==
    /\ seed \in Keys
    /\ now = Now0
    /\ inDate = <<>> /\ inDesc = <<>> /\ inPlayer = PyNone /\ inPosition = PyNone
    /\ viaText = FALSE /\ caseMode = "asis"
    /\ out = NotCalled /\ prevOut = NotCalled
    /\ page \in Pages
    /\ sheetsOn \in BOOLEAN
    /\ ws \in {NoSheet, BlankSheet, EarlierSheet(seed)}
    /\ meta = NoSheet
    /\ csv = {}
    /\ RunIdle
    /\ runs = 0
    /\ log = <<>>
    /\ BackfillOff
    /\ ScanOff
    /\ peer = NoPeer

\* run_daily_automation(date), lines 68-80: the results dictionary; date is a
\* day number, NoDate for None
Start(date) ==
    /\ pc = "idle"
    /\ runs' = runs + 1
    /\ pc' = "fetch"
    /\ attempts' = 0
    /\ failure' = "none"
    /\ raw' = <<>> /\ df' = <<>> /\ existing' = <<>> /\ newDf' = <<>> /\ added' = 0
    /\ results' = [success |-> FALSE,
                   date_processed |-> IF date = NoDate THEN Today(now)
                                      ELSE Today(date * TicksPerDay),
                   transactions_found |-> 0,
                   transactions_saved_csv |-> 0,
                   transactions_added_sheets |-> 0,
                   csv_file |-> "None",
                   errors |-> <<>>]
    /\ UNCHANGED <<seed, now, parseVars, scanVars, peerVars, envVars, log>>

\* main(): the daily run, run_daily_automation()
StartRun ==
    /\ bfpc = "off"
    /\ runs < MaxRuns
    /\ Start(NoDate)
    /\ UNCHANGED bfVars

\* the exception handlers on the way out of a failed run: the error is logged,
\* appended to results['errors'] and raised again
Raise(kind) ==
    /\ failure' = kind
    /\ results' = [results EXCEPT !.errors = Append(@, kind)]
    /\ pc' = "failed"

\* get_daily_transactions: the request succeeds; the page is parsed, filtered
\* by date, de-duplicated and sorted.  An empty frame ends the run (line 89).
FetchOk ==
    /\ pc = "fetch"
    /\ attempts' = attempts + 1
    /\ raw' = fetch_transactions(seed, now, page)
    /\ \E frame \in get_daily_transactions(raw') :
        /\ df' = frame
        /\ results' = [results EXCEPT !.transactions_found = Len(frame),
                                      !.success = (frame = <<>>)]
        /\ pc' = IF frame = <<>> THEN "done" ELSE "csv"
    /\ UNCHANGED <<seed, now, parseVars, scanVars, peerVars, bfVars, envVars, failure, existing, newDf, added,
                   runs, log>>

\* the variant of a failed fetch that is logged and answered with an empty
\* list, so that the run goes on as with an empty page
FetchFailEmpty ==
    /\ pc = "fetch"
    /\ attempts' = attempts + 1
    /\ \E kind \in FetchFaults : failure' = kind
    /\ results' = [results EXCEPT !.success = TRUE]
    /\ pc' = "done"
    /\ UNCHANGED <<seed, now, parseVars, scanVars, peerVars, bfVars, envVars, raw, df, existing, newDf, added,
                   runs, log>>

\* fetch_transactions: session.get or raise_for_status raises a
\* RequestException; it is logged and raised again (lines 89-91)
FetchFail ==
    /\ pc = "fetch"
    /\ attempts' = attempts + 1
    /\ \E kind \in FetchFaults : Raise(kind)
    /\ UNCHANGED <<seed, now, parseVars, scanVars, peerVars, bfVars, envVars, raw, df, existing, newDf, added,
                   runs, log>>

CsvName(clock) ==
    "data/spotrac_nfl_transactions_" \o Str(Today(clock)) \o ".csv"

\* the variant of step 2 that goes on to the sheets step without looking at
\* self.sheets_updater
SaveCsvThenSheets ==
    /\ pc = "csv"
    /\ csv' = {f \in csv : f.name # CsvName(now)}
                 \cup {[name |-> CsvName(now), rows |-> df]}
    /\ results' = [results EXCEPT !.csv_file = CsvName(now),
                                  !.transactions_saved_csv = Len(df)]
    /\ pc' = "setup"
    /\ UNCHANGED <<seed, now, parseVars, scanVars, peerVars, bfVars, page, sheetsOn, ws, meta, attempts, failure,
                   raw, df, existing, newDf, added, runs, log>>

\* save_to_csv: the file of the processing date is written (over an older one)
SaveCsv ==
    /\ pc = "csv"
    /\ csv' = {f \in csv : f.name # CsvName(now)}
                 \cup {[name |-> CsvName(now), rows |-> df]}
    /\ results' = [results EXCEPT !.csv_file = CsvName(now),
                                  !.transactions_saved_csv = Len(df)]
    /\ pc' = IF sheetsOn THEN "setup" ELSE "report"
    /\ UNCHANGED <<seed, now, parseVars, scanVars, peerVars, bfVars, page, sheetsOn, ws, meta, attempts, failure,
                   raw, df, existing, newDf, added, runs, log>>

\* the variant of setup_worksheet that starts the worksheet anew every time
SetupWorksheetAnew ==
    /\ pc = "setup"
    /\ ws' = [exists |-> TRUE, rows |-> <<HeaderRow>>]
    /\ pc' = "filter"
    /\ UNCHANGED <<seed, now, parseVars, scanVars, peerVars, bfVars, page, sheetsOn, meta, csv, attempts, failure,
                   raw, df, existing, newDf, added, results, runs, log>>

\* setup_worksheet: the worksheet is found, or created with its header row
SetupWorksheet ==
    /\ pc = "setup"
    /\ ws' = IF ws.exists THEN ws ELSE [exists |-> TRUE, rows |-> <<HeaderRow>>]
    /\ pc' = "filter"
    /\ UNCHANGED <<seed, now, parseVars, scanVars, peerVars, bfVars, page, sheetsOn, meta, csv, attempts, failure,
                   raw, df, existing, newDf, added, results, runs, log>>

\* setup_worksheet raises: the lookup fails, or add_worksheet fails, or the
\* worksheet is added and append_row(headers) fails
SetupFail ==
    /\ pc = "setup"
    /\ \/ ws' = ws
       \/ ~ws.exists /\ ws' = BlankSheet
    /\ Raise("sheets")
    /\ UNCHANGED <<seed, now, parseVars, scanVars, peerVars, bfVars, page, sheetsOn, meta, csv, attempts,
                   raw, df, existing, newDf, added, runs, log>>

\* filter_new_transactions: the ids are read (a failed read is logged and
\* yields []), and the frame is filtered
FilterNew ==
    /\ pc = "filter"
    /\ \E readOk \in BOOLEAN :
        existing' = IF readOk THEN get_existing_transaction_ids(ws.rows) ELSE <<>>
    /\ newDf' = filter_new_transactions(df, existing')
    /\ pc' = "append"
    /\ UNCHANGED <<seed, now, parseVars, scanVars, peerVars, bfVars, envVars, attempts, failure, raw, df, added,
                   results, runs, log>>

\* the variant of the append that is given the whole batch
AppendAllRows ==
    /\ pc = "append"
    /\ ws' = [ws EXCEPT !.rows = @ \o [i \in 1..Len(df) |-> SheetRow(df[i])]]
    /\ added' = Len(df)
    /\ pc' = "meta"
    /\ UNCHANGED <<seed, now, parseVars, scanVars, peerVars, bfVars, page, sheetsOn, meta, csv, attempts, failure,
                   raw, df, existing, newDf, results, runs, log>>

\* append_transactions: nothing to add, or append_rows succeeds
AppendRows ==
    /\ pc = "append"
    /\ ws' = [ws EXCEPT !.rows = @ \o [i \in 1..Len(newDf) |-> SheetRow(newDf[i])]]
    /\ added' = Len(newDf)
    /\ pc' = "meta"
    /\ UNCHANGED <<seed, now, parseVars, scanVars, peerVars, bfVars, page, sheetsOn, meta, csv, attempts, failure,
                   raw, df, existing, newDf, results, runs, log>>

\* append_transactions: append_rows raises, the store having taken none or
\* some of the rows; the error is raised again
AppendFail ==
    /\ pc = "append"
    /\ newDf # <<>>
    /\ \E k \in 0..(Len(newDf) - 1) :
        ws' = [ws EXCEPT !.rows = @ \o [i \in 1..k |-> SheetRow(newDf[i])]]
    /\ Raise("sheets")
    /\ UNCHANGED <<seed, now, parseVars, scanVars, peerVars, bfVars, page, sheetsOn, meta, csv, attempts,
                   raw, df, existing, newDf, added, runs, log>>

MetaRows(clock) == <<"Field", "Last Updated", clock, "Data Source", "Automation", "Status">>

\* update_metadata: the Metadata worksheet is cleared and written anew.
\* Then the result of process_daily_update goes into results (lines 104-105)
UpdateMetadata ==
    /\ pc = "meta"
    /\ meta' = [exists |-> TRUE, rows |-> MetaRows(now)]
    /\ results' = [results EXCEPT !.transactions_added_sheets = added]
    /\ pc' = "report"
    /\ UNCHANGED <<seed, now, parseVars, scanVars, peerVars, bfVars, page, sheetsOn, ws, csv, attempts, failure,
                   raw, df, existing, newDf, added, runs, log>>

\* update_metadata raises inside: the error is logged and swallowed (lines
\* 222-223), the worksheet staying as it was, or cleared and not written
UpdateMetadataFail ==
    /\ pc = "meta"
    /\ \/ meta' = meta
       \/ meta' = BlankSheet
    /\ results' = [results EXCEPT !.transactions_added_sheets = added]
    /\ pc' = "report"
    /\ UNCHANGED <<seed, now, parseVars, scanVars, peerVars, bfVars, page, sheetsOn, ws, csv, attempts, failure,
                   raw, df, existing, newDf, added, runs, log>>

\* generate_summary_report, then success (lines 110-113)
Report ==
    /\ pc = "report"
    /\ results' = [results EXCEPT !.success = TRUE]
    /\ pc' = "done"
    /\ UNCHANGED <<seed, now, parseVars, scanVars, peerVars, bfVars, envVars, attempts, failure, raw, df,
                   existing, newDf, added, runs, log>>

\* the variant of the loop in which an exception of one date's run leaves
\* run_historical_backfill
AfterRunAbort(raised) == IF raised THEN "finished" ELSE "sleep"

\* what run_historical_backfill does when the call is over: the result is
\* added up and the loop sleeps, or the exception is logged (lines 236-245)
AfterRun(raised) == IF raised THEN "next" ELSE "sleep"

\* the run is over: results is returned, or the exception leaves the function
\* (line 121) and results is lost with the other locals
Return ==
    /\ pc \in {"done", "failed"}
    /\ log' = Append(log, [returned |-> pc = "done",
                           success |-> results.success,
                           found |-> results.transactions_found,
                           added |-> results.transactions_added_sheets,
                           key |-> seed, at |-> now])
    /\ pc' = "idle"
    /\ attempts' = 0
    /\ failure' = "none"
    /\ raw' = <<>> /\ df' = <<>> /\ existing' = <<>> /\ newDf' = <<>> /\ added' = 0
    /\ results' = NoResults
    /\ bfpc' = IF bfpc = "call" THEN AfterRun(pc = "failed") ELSE bfpc
    /\ UNCHANGED <<seed, now, parseVars, scanVars, peerVars, envVars, runs, current_date, end_date_obj,
                   events>>

Next ==
    \/ StartRun \/ FetchOk \/ FetchFail \/ SaveCsv
    \/ SetupWorksheet \/ SetupFail \/ FilterNew
    \/ AppendRows \/ AppendFail \/ UpdateMetadata \/ UpdateMetadataFail
    \/ Report \/ Return
    \/ Restart \/ Tick

Spec == Init /\ [][Next]_vars

\* the runs of one process in which no step raises and the clock stands still
RunNext ==
    \/ StartRun \/ FetchOk \/ SaveCsv \/ SetupWorksheet \/ FilterNew
    \/ AppendRows \/ UpdateMetadata \/ Report \/ Return

SpecRuns == Init /\ [][RunNext]_vars

-----------------------------------------------------------------------------
(* Runs in which steps raise, on a few pages *)

\* an empty page, a page of two elements with the older one first, and a page
\* without structure
SamplePages ==
    {NoPage,
     [elements |-> <<ElemB, ElemA>>, lines |-> <<>>],
     [elements |-> SquadPage, lines |-> <<>>],
     [elements |-> <<>>, lines |-> TextLines]}

FaultInit == Init /\ page \in SamplePages

FaultNext ==
    \/ StartRun \/ FetchOk \/ FetchFail \/ SaveCsv
    \/ SetupWorksheet \/ SetupFail \/ FilterNew
    \/ AppendRows \/ AppendFail \/ UpdateMetadata \/ UpdateMetadataFail
    \/ Report \/ Return

SpecFaults == FaultInit /\ [][FaultNext]_vars

-----------------------------------------------------------------------------
(* One call of parse_spotrac_page, followed line by line *)

IdLineA == <<"John", "Doe", "(", "QB", ")">>
IdLineB == <<"Sam", "Roe", "(", "WR", ")">>
TxPlain == Candidate(<<"Jul", "03", ",", "2025">>, <<"Traded", "to", "the", "Jets">>)
TxTeam  == Candidate(<<"Jul", "03", ",", "2025">>,
                     <<"Signed", "with", "Pittsburgh", "(", "PIT", ")">>)
TxOther == Candidate(<<"Jul", "01", ",", "2025">>, <<"Had", "a", "great", "day">>)
\* a line with the date and a dash at its end: ' - ' is not found in it
TxNoDash == <<"Jul", "03", ",", "2025", "-">>
Prose == <<"Had", "a", "great", "day">>

LineKinds == {IdLineA, IdLineB, TxPlain, TxTeam, TxOther, TxNoDash, Prose}

LineSeqs == UNION {[1..n -> LineKinds] : n \in 0..MaxLines}

\* an element whose description holds no transaction keyword
ElemOther == ElementText(<<"Sam", "Roe">>, <<"WR">>, TxOther)

Soups == {<<>>, <<ElemA>>, <<ElemOther>>, <<ElemOther, ElemA>>}

PageInit ==
    /\ seed \in Keys
    /\ now = Now0
    /\ inDate = <<>> /\ inDesc = <<>> /\ inPlayer = PyNone /\ inPosition = PyNone
    /\ viaText = FALSE /\ caseMode = "asis"
    /\ out = NotCalled /\ prevOut = NotCalled
    /\ BackfillOff
    /\ page = NoPage /\ sheetsOn = FALSE /\ ws = NoSheet /\ meta = NoSheet /\ csv = {}
    /\ RunIdle /\ runs = 0 /\ log = <<>>
    /\ peer = NoPeer
    /\ soup \in Soups
    /\ lines \in LineSeqs
    /\ ppc = "method1"
    /\ line_no = 0
    /\ current_player = PyNone
    /\ current_position = PyNone
    /\ transactions = <<>>

\* the variant of Method 1 after which Method 2 runs in any case, adding to
\* what Method 1 found
ParseStructuredMerge ==
    /\ ppc = "method1"
    /\ transactions' = IF soup # <<>>
                       THEN parse_structured_elements(seed, now, soup)
                       ELSE <<>>
    /\ ppc' = "method2"
    /\ UNCHANGED <<seed, now, parseVars, peerVars, bfVars, envVars, runVars, runs, log,
                   soup, lines, line_no, current_player, current_position>>

\* Method 1 (lines 100-110): the elements found are parsed
ParseStructured ==
    /\ ppc = "method1"
    /\ transactions' = IF soup # <<>>
                       THEN parse_structured_elements(seed, now, soup)
                       ELSE <<>>
    /\ ppc' = IF transactions' = <<>> THEN "method2" ELSE "return"
    /\ UNCHANGED <<seed, now, parseVars, peerVars, bfVars, envVars, runVars, runs, log,
                   soup, lines, line_no, current_player, current_position>>

\* Method 1 raises: the exception is logged (lines 111-112), transactions
\* is still the empty list
ParseStructuredFail ==
    /\ ppc = "method1"
    /\ soup # <<>>
    /\ ppc' = "method2"
    /\ UNCHANGED <<seed, now, parseVars, peerVars, bfVars, envVars, runVars, runs, log,
                   soup, lines, line_no, current_player, current_position, transactions>>

\* Method 2 (line 116): one turn of the loop of parse_text_patterns
ScanLine ==
    /\ ppc = "method2"
    /\ line_no < Len(lines)
    /\ line_no' = line_no + 1
    /\ \E st \in {scan_line(seed, Stamp(now, line_no + 1),
                              <<transactions, current_player, current_position>>,
                              lines[line_no + 1])} :
        /\ transactions' = st[1]
        /\ current_player' = st[2]
        /\ current_position' = st[3]
    /\ UNCHANGED <<seed, now, parseVars, peerVars, bfVars, envVars, runVars, runs, log,
                   soup, lines, ppc>>

\* the loop is over: parse_text_patterns and parse_spotrac_page return
ScanReturn ==
    /\ ppc = "method2"
    /\ line_no = Len(lines)
    /\ ppc' = "return"
    /\ UNCHANGED <<seed, now, parseVars, peerVars, bfVars, envVars, runVars, runs, log,
                   soup, lines, line_no, current_player, current_position, transactions>>

PageNext == ParseStructured \/ ParseStructuredFail \/ ScanLine \/ ScanReturn

SpecPage == PageInit /\ [][PageNext]_vars

-----------------------------------------------------------------------------
(* Two invocations of process_daily_update on one spreadsheet *)

\* the frames a second invocation can be given: what get_daily_transactions
\* makes of a page, in a process with the same hash key
PeerFrames(key, clock) ==
    UNION {get_daily_transactions(fetch_transactions(key, clock, content)) :
             content \in SamplePages} \ {<<>>}

\* process_daily_update(df) is entered by the second invocation (line 238)
PeerStart ==
    /\ peer = NoPeer
    /\ pc \in {"setup", "filter", "append"}
    /\ \E frame \in PeerFrames(seed, now) :
        peer' = [pc |-> "setup", df |-> frame, existing |-> <<>>, new_df |-> <<>>]
    /\ UNCHANGED <<seed, now, parseVars, scanVars, bfVars, envVars, runVars, runs, log>>

\* its setup_worksheet (line 240)
PeerSetup ==
    /\ peer.pc = "setup"
    /\ ws' = IF ws.exists THEN ws ELSE [exists |-> TRUE, rows |-> <<HeaderRow>>]
    /\ peer' = [peer EXCEPT !.pc = "filter"]
    /\ UNCHANGED <<seed, now, parseVars, scanVars, bfVars, page, sheetsOn, meta, csv,
                   runVars, runs, log>>

\* its filter_new_transactions (line 243), the ids being read
PeerFilter ==
    /\ peer.pc = "filter"
    /\ peer' = [peer EXCEPT
                  !.pc = "append",
                  !.existing = get_existing_transaction_ids(ws.rows),
                  !.new_df = filter_new_transactions(peer.df,
                                 get_existing_transaction_ids(ws.rows))]
    /\ UNCHANGED <<seed, now, parseVars, scanVars, bfVars, envVars, runVars, runs, log>>

\* its append_transactions (line 246)
PeerAppend ==
    /\ peer.pc = "append"
    /\ ws' = [ws EXCEPT !.rows = @ \o [i \in 1..Len(peer.new_df) |->
                                           SheetRow(peer.new_df[i])]]
    /\ peer' = [peer EXCEPT !.pc = "meta"]
    /\ UNCHANGED <<seed, now, parseVars, scanVars, bfVars, page, sheetsOn, meta, csv,
                   runVars, runs, log>>

\* its update_metadata (line 249), and the return
PeerMetadata ==
    /\ peer.pc = "meta"
    /\ meta' = [exists |-> TRUE, rows |-> MetaRows(now)]
    /\ peer' = [peer EXCEPT !.pc = "done"]
    /\ UNCHANGED <<seed, now, parseVars, scanVars, bfVars, page, sheetsOn, ws, csv,
                   runVars, runs, log>>

\* filter_new_transactions of the run, the ids being read
FilterNewRead == FilterNew /\ existing' = get_existing_transaction_ids(ws.rows)

\* the sheets updater is set, and the worksheet is there with its header row
ConcurrentInit == FaultInit /\ sheetsOn /\ ws.exists /\ ws.rows # <<>>

ConcurrentNext ==
    \/ StartRun \/ FetchOk \/ SaveCsv \/ SetupWorksheet \/ FilterNewRead
    \/ AppendRows \/ UpdateMetadata \/ Report \/ Return
    \/ PeerStart \/ PeerSetup \/ PeerFilter \/ PeerAppend \/ PeerMetadata

SpecConcurrent == ConcurrentInit /\ [][ConcurrentNext]_vars

-----------------------------------------------------------------------------
(* run_historical_backfill *)

FirstDay == Ordinal(2025, 7, 2)
BackfillDays == FirstDay..(FirstDay + MaxBackfillDays - 1)

\* run_historical_backfill(start_date, end_date), lines 223-230; the first
\* thing it logs is the range it was given
BackfillStart ==
    /\ bfpc = "off"
    /\ pc = "idle"
    /\ runs = 0
    /\ \E start_date \in BackfillDays, end_date \in BackfillDays :
        /\ current_date' = start_date
        /\ end_date_obj' = end_date
        /\ events' = <<<<"start", start_date>>>>
    /\ bfpc' = "loop"
    /\ UNCHANGED <<seed, now, parseVars, scanVars, peerVars, envVars, runVars, runs, log>>

\* the loop test holds: run_daily_automation(date_str) is called (line 237)
BackfillCall ==
    /\ bfpc = "loop"
    /\ current_date <= end_date_obj
    /\ Start(current_date)
    /\ bfpc' = "call"
    /\ events' = Append(events, <<"run", current_date>>)
    /\ UNCHANGED <<current_date, end_date_obj>>

\* time.sleep(1), after a call that returned (lines 240-242)
BackfillSleep ==
    /\ bfpc = "sleep"
    /\ events' = Append(events, <<"sleep", 1>>)
    /\ bfpc' = "next"
    /\ UNCHANGED <<seed, now, parseVars, scanVars, peerVars, envVars, runVars, runs, log,
                   current_date, end_date_obj>>

\* current_date += timedelta(days=1) (line 247)
BackfillAdvance ==
    /\ bfpc = "next"
    /\ current_date' = current_date + 1
    /\ bfpc' = "loop"
    /\ UNCHANGED <<seed, now, parseVars, scanVars, peerVars, envVars, runVars, runs, log,
                   end_date_obj, events>>

\* the loop test fails: the backfill is over (line 249)
BackfillEnd ==
    /\ bfpc = "loop"
    /\ current_date > end_date_obj
    /\ bfpc' = "finished"
    /\ UNCHANGED <<seed, now, parseVars, scanVars, peerVars, envVars, runVars, runs, log,
                   current_date, end_date_obj, events>>

BackfillNext ==
    \/ BackfillStart \/ BackfillCall \/ BackfillSleep \/ BackfillAdvance
    \/ BackfillEnd
    \/ FetchFail \/ FetchOk \/ SaveCsv
    \/ SetupWorksheet \/ SetupFail \/ FilterNew
    \/ AppendRows \/ AppendFail \/ UpdateMetadata \/ UpdateMetadataFail
    \/ Report \/ Return

\* the loop is sequential code: a step that can be taken is taken
SpecBackfill == FaultInit /\ [][BackfillNext]_vars /\ WF_vars(BackfillNext)

-----------------------------------------------------------------------------
(* Claims about the pipeline *)

\* C1: run_daily_automation executed twice in succession against unchanged
\* source content: the second run appends zero rows to the worksheet and
\* reports the same number of transactions found as the first.
C1_Idempotent ==
    (/\ Len(log) = 2
     /\ sheetsOn
     /\ log[1].success /\ log[2].success
     /\ log[1].at = log[2].at)
        => (log[2].added = 0 /\ log[2].found = log[1].found)

Ids(rows) == {rows[i].transaction_id : i \in 1..Len(rows)}
Range(rows) == {rows[i] : i \in 1..Len(rows)}
NoRepeat(rows) == \A i, j \in 1..Len(rows) : rows[i] = rows[j] => i = j
Pos(rows, r) == CHOOSE i \in 1..Len(rows) : rows[i] = r

\* the positions of the first occurrence of each transaction_id
FirstOccurrences(rows) ==
    {i \in 1..Len(rows) :
        \A j \in 1..(i - 1) : rows[j].transaction_id # rows[i].transaction_id}

\* the survivors the claim expects: first occurrences whose id is not stored
Survivors(rows, stored) ==
    {rows[i] : i \in {k \in FirstOccurrences(rows) :
                        rows[k].transaction_id \notin stored}}

\* C3: the records that survive intra-batch de-duplication followed by
\* cross-run filtering are exactly the first occurrence of each transaction_id
\* that is not among the stored identities the run works with.
C3_DedupCorrect ==
    pc = "append" =>
        /\ Range(newDf) = Survivors(raw, Range(existing))
        /\ NoRepeat(newDf)
        /\ Cardinality(Ids(newDf)) = Len(newDf)

\* batch [A, B, A] with B stored yields exactly [A], the first of the two
C3_Witness ==
    /\ pc = "append"
    /\ Len(raw) = 3
    /\ raw[1].transaction_id = raw[3].transaction_id
    /\ raw[1] # raw[3]
    /\ Range(existing) = {raw[2].transaction_id}
    /\ newDf = <<raw[1]>>

\* C4 as written: the records that survive de-duplication keep their relative
\* order from the fetch in the frame handed to the CSV and to the append step.
C4_OrderPreserved ==
    pc \in {"csv", "append"} =>
        \A i, j \in FirstOccurrences(raw) :
            i < j => Pos(df, raw[i]) < Pos(df, raw[j])

\* C4 as the code has it: the frame handed to the CSV and to the append step
\* is ordered by date, newest first, and the cross-run filter keeps the
\* relative order of the frame it is given.
C4_NewestFirst ==
    pc \in {"csv", "append"} =>
        /\ \A i \in 1..(Len(df) - 1) : ~StrLess(df[i].date, df[i + 1].date)
        /\ Range(df) = Survivors(raw, {})
        /\ pc = "append" =>
              \A i, j \in 1..Len(newDf) :
                  i < j => Pos(df, newDf[i]) < Pos(df, newDf[j])

\* the older transaction was fetched first and is appended last
C4_Witness ==
    /\ pc = "append"
    /\ Len(raw) = 2 /\ Len(newDf) = 2
    /\ StrLess(raw[1].date, raw[2].date)
    /\ newDf = <<raw[2], raw[1]>>

\* the identities in the data rows of the worksheet
StoredIds(sheet) ==
    {sheet.rows[i].transaction_id :
        i \in {k \in 1..Len(sheet.rows) : sheet.rows[k] # HeaderRow}}

\* C5: when the store holds no existing identities, filter_new_transactions
\* returns the input batch unchanged: same records, same order.
C5_FirstRunNoOp ==
    (pc = "append" /\ (StoredIds(ws) = {} \/ existing = <<>>)) => newDf = df

C5_Witness ==
    /\ pc = "append"
    /\ StoredIds(ws) = {}
    /\ Len(df) >= 2
    /\ newDf = df

\* C10: a fetch that fails transiently (timeout or 5xx) is tried again, up to
\* a fixed bound of attempts, before the failure is reported for the period.
C10_FetchRetried ==
    (pc = "failed" /\ failure \in TransientFaults) => attempts >= 2

-----------------------------------------------------------------------------
(* Claims about failures and outcomes *)

\* C11: when the source request fails, fetch_transactions raises, and for that
\* run no record is parsed, written to the CSV copy or appended to the store.
C11_FetchFailureSurfaced ==
    /\ [](failure \in FetchFaults =>
            /\ pc = "failed"
            /\ raw = <<>> /\ df = <<>> /\ newDf = <<>> /\ added = 0
            /\ results.errors = <<failure>>
            /\ ~results.success
            /\ results.transactions_found = 0
            /\ results.csv_file = "None")
    /\ [][(failure \in FetchFaults \/ failure' \in FetchFaults) =>
            (csv' = csv /\ ws' = ws /\ meta' = meta)]_vars

\* a fetch fails in a run that follows one which wrote a CSV and rows
C11_Witness ==
    /\ pc = "failed"
    /\ failure = "http5xx"
    /\ csv # {}
    /\ StoredIds(ws) # {}

\* C12: every invocation of run_daily_automation, one in which a stage fails
\* included, hands its caller the structured outcome.
C12_OutcomeAlways ==
    \A i \in 1..Len(log) : log[i].returned

\* C13: every outcome with success = true reports the number found, the number
\* left after dedupe, the number appended and a non-null location of the batch
\* file, a run whose batch is empty included.
C13_DoneComplete ==
    (pc = "done" /\ results.success) =>
        /\ results.transactions_found = Len(df)
        /\ results.transactions_saved_csv = Len(df)
        /\ results.transactions_added_sheets = added
        /\ results.csv_file # "None"

-----------------------------------------------------------------------------
(* Claims about the backfill *)

\* the dates of the calls of run_daily_automation, in the order of the calls
RunDates(ev) ==
    LET calls == SelectSeq(ev, LAMBDA e : e[1] = "run")
    IN  [i \in 1..Len(calls) |-> calls[i][2]]

\* the dates from a to b in ascending order (none when a > b)
DateRange(a, b) == [i \in 1..(b - a + 1) |-> a + i - 1]

\* C14: when run_historical_backfill(start, end) is over, run_daily_automation
\* has been called exactly once for each date of [start, end], in ascending
\* order, also when the run of some date raised; and a backfill that has
\* started comes to its end.
C14_BackfillCoverage ==
    /\ [](bfpc = "finished" =>
            RunDates(events) = DateRange(events[1][2], end_date_obj))
    /\ (bfpc # "off") ~> (bfpc = "finished")

\* a backfill of two dates is over, and the run of the first date raised
C14_Witness ==
    /\ bfpc = "finished"
    /\ Len(log) = 2
    /\ ~log[1].returned
    /\ RunDates(events) = <<FirstDay, FirstDay + 1>>

\* C15: between two consecutive fetches of a backfill there is a sleep of the
\* minimum spacing: every call of run_daily_automation but the first comes
\* directly after a time.sleep(1), whether the run before it returned or
\* raised.
C15_FetchSpacing ==
    \A i \in 2..Len(events) :
        (events[i][1] = "run" /\ \E j \in 1..(i - 1) : events[j][1] = "run")
            => events[i - 1] = <<"sleep", 1>>

\* C16: a run that is given a date d finds, saves and appends the
\* transactions of d: in a run of the backfill, every record of the batch
\* carries the date the run was called for.
C16_PeriodSelected ==
    (bfpc = "call" /\ pc \notin {"idle", "fetch", "failed"}) =>
        \A i \in 1..Len(df) : df[i].date = results.date_processed

-----------------------------------------------------------------------------
(* Claims about the worksheets *)

\* the rows a step has put after the rows that were there
AppendedRows(before, after) == SubSeq(after.rows, Len(before.rows) + 1, Len(after.rows))

IsPrefix(a, b) == Len(a) <= Len(b) /\ SubSeq(b, 1, Len(a)) = a

\* C17: the rows given to the append call are exactly the rows of the batch
\* records whose transaction_id is not among the ids read from the worksheet
\* in this run, each once: no stored id is among them, no new record is
\* missing.
C17_AppendInput ==
    [][(pc = "append" /\ pc' = "meta") =>
         LET fresh == {r \in Range(df) : r.transaction_id \notin Range(existing)}
             rows  == AppendedRows(ws, ws')
         IN  /\ IsPrefix(ws.rows, ws'.rows)
             /\ Range(rows) = {SheetRow(r) : r \in fresh}
             /\ Len(rows) = Cardinality(fresh)
             /\ added' = Len(rows)]_vars

\* a batch of which one record was stored and another was not has been
\* appended
C17_Witness ==
    /\ pc = "meta"
    /\ existing # <<>>
    /\ added >= 1
    /\ Len(df) > added

\* C18: when the store takes some rows of an append and rejects the others,
\* the run ends with an outcome whose appended count is the number of rows
\* the store took, and those rows stay in the worksheet.
C18_PartialAppendReported ==
    [][(pc = "append" /\ Len(ws'.rows) > Len(ws.rows)
                      /\ Len(ws'.rows) < Len(ws.rows) + Len(newDf)) =>
         /\ IsPrefix(ws.rows, ws'.rows)
         /\ pc' # "failed"
         /\ results'.transactions_added_sheets = Len(ws'.rows) - Len(ws.rows)]_vars

-----------------------------------------------------------------------------
(* Claims about the configuration *)

\* C20 as stated: when the credentials path or the sheet id is missing, the
\* construction fails and no run is performed: nothing is fetched, no CSV
\* file is written, nothing is appended.
C20_ConfigFatal ==
    ~sheetsOn => (runs = 0 /\ pc = "idle" /\ attempts = 0 /\ csv = {})

\* C20: when the credentials path or the sheet id is missing, the
\* construction of GoogleSheetsUpdater raises and NFLTransactionAutomation
\* goes on without it: its runs fetch and write the CSV file, never enter
\* the sheets step, leave both worksheets as they are and report 0 rows
\* added.
C20_CsvOnly ==
    /\ [](~sheetsOn =>
            /\ pc \notin {"setup", "filter", "append", "meta"}
            /\ added = 0
            /\ pc # "idle" => results.transactions_added_sheets = 0
            /\ pc = "done" /\ df # <<>> =>
                  \E f \in csv : f.name = results.csv_file /\ f.rows = df)
    /\ [][~sheetsOn => (ws' = ws /\ meta' = meta)]_vars

\* a run without the sheets updater has fetched a batch, written the CSV
\* file and ended with success
C20_Witness ==
    /\ ~sheetsOn
    /\ pc = "done"
    /\ results.success
    /\ df # <<>>
    /\ csv # {}

-----------------------------------------------------------------------------
(* Claims about concurrent and repeated updates *)

\* column F of the data rows of the worksheet, in order
DataIds(sheet) ==
    SelectSeq(col_values_F(sheet.rows), LAMBDA val : val # "Transaction ID")

\* C21: when two invocations of process_daily_update on overlapping batches
\* interleave their reads of the existing ids and their appends, the
\* worksheet does not come to hold two rows with the same transaction_id.
C21_NoDuplicateIds ==
    peer # NoPeer => NoRepeat(DataIds(ws))

-----------------------------------------------------------------------------
(* Claims about parse_spotrac_page and the scan of the lines *)

\* line i of the content matches Pattern 1, the player-identity pattern
IsIdentityLine(i) ==
    LET j == FirstAfter(lines[i], "(", 0)
        k == FirstAfter(lines[i], ")", j)
    IN  j >= 2 /\ k >= j + 2 /\ k = Len(lines[i])

\* the player and the position an identity line names
IdentityPlayer(i) == SubSeq(lines[i], 1, FirstAfter(lines[i], "(", 0) - 1)
IdentityPosition(i) ==
    SubSeq(lines[i], FirstAfter(lines[i], "(", 0) + 1, Len(lines[i]) - 1)

\* the latest identity line before line i, 0 if there is none
LastIdentity(i) ==
    IF \E j \in 1..(i - 1) : IsIdentityLine(j)
    THEN CHOOSE j \in 1..(i - 1) :
            IsIdentityLine(j) /\ \A h \in (j + 1)..(i - 1) : ~IsIdentityLine(h)
    ELSE 0

\* the line a record of the scan was made from (its clock reading tells)
LineOf(r) == r.scraped_at[2]

\* the records in transactions come from the scan of the lines
Scanning == ppc = "method2" \/ line_no > 0

\* C22: every record the scan of the lines emits carries the player and the
\* position of the latest identity line (a line matching Pattern 1) before
\* its transaction line, and no identity line gives its player to two
\* records; so an identity line that is followed by another one before any
\* transaction line gives it to none.
C22_ScanPairing ==
    Scanning =>
        /\ \A n \in 1..Len(transactions) :
              LET i == LineOf(transactions[n]) IN
              /\ i \in 1..line_no
              /\ LastIdentity(i) > 0
              /\ transactions[n].player = IdentityPlayer(LastIdentity(i))
              /\ transactions[n].position = IdentityPosition(LastIdentity(i))
        /\ \A n, m \in 1..Len(transactions) :
              LastIdentity(LineOf(transactions[n])) = LastIdentity(LineOf(transactions[m]))
                  => n = m

\* two identity lines and then a transaction line have been read: the one
\* record carries the second identity
C22_Witness ==
    /\ ppc = "return"
    /\ lines = <<IdLineA, IdLineB, TxPlain>>
    /\ Len(transactions) = 1
    /\ transactions[1].player = <<"Sam", "Roe">>

\* line i has the form '<Mon> <day>, <year> - <description>'
IsTransactionLine(i) ==
    /\ Len(lines[i]) >= 6
    /\ DateMatchAt(lines[i], 1)
    /\ lines[i][5] = "-"

\* C23: every line of the form '<Mon> <day>, <year> - <description>' that
\* is read while a player is pending emits exactly one record, paired with
\* that player and position, whatever the description, a description ending
\* in a parenthesised team abbreviation included.
C23_ScanEmits ==
    [][(ppc = "method2" /\ line_no' = line_no + 1
          /\ IsTransactionLine(line_no') /\ Truthy(current_player)) =>
         /\ Len(transactions') = Len(transactions) + 1
         /\ SubSeq(transactions', 1, Len(transactions)) = transactions
         /\ transactions'[Len(transactions')].player = current_player
         /\ transactions'[Len(transactions')].position = current_position
         /\ transactions'[Len(transactions')].description
              = SubSeq(lines[line_no'], 6, Len(lines[line_no']))]_vars

\* C24: under both strategies a candidate whose description holds no
\* transaction keyword is emitted, as a record of type Other: an element
\* that parse_transaction_text can parse is in the structured result, and a
\* keywordless transaction line read right after an identity line is in the
\* result of the scan.
C24_NoKeywordRejection ==
    /\ (ppc = "return" /\ line_no = 0 /\ transactions # <<>>) =>
          \A i \in 1..Len(soup) :
              (/\ ~is_transaction_text(soup[i])
               /\ parse_transaction_text(seed, Stamp(now, i), soup[i]) # NoRecord)
              => \E n \in 1..Len(transactions) :
                    /\ transactions[n] = parse_transaction_text(seed, Stamp(now, i), soup[i])
                    /\ transactions[n].type = "Other"
    /\ Scanning =>
          \A i \in 2..line_no :
              (lines[i] = TxOther /\ IsIdentityLine(i - 1))
              => \E n \in 1..Len(transactions) :
                    /\ LineOf(transactions[n]) = i
                    /\ transactions[n].type = "Other"

\* C25: parse_spotrac_page returns the output of one strategy.  The scan of
\* the lines is entered if and only if Method 1 left no record (nothing
\* found, nothing parsed, or an exception), it reads lines only then, and
\* what it builds is the scan's result on the lines read, with no record
\* of Method 1 in it; a result of Method 1 is returned as it is.
C25_OneStrategy ==
    /\ [][ppc = "method1" =>
            /\ (ppc' = "method2") <=> (transactions' = <<>>)
            /\ (ppc' = "return") <=> (transactions' # <<>>)
            /\ transactions' # <<>> =>
                  transactions' = parse_structured_elements(seed, now, soup)]_vars
    /\ [][line_no' # line_no => ppc = "method2"]_vars
    /\ [](Scanning =>
            transactions = parse_text_patterns(seed, now, SubSeq(lines, 1, line_no)))
    /\ []((ppc = "return" /\ line_no = 0 /\ transactions # <<>>) =>
            transactions = parse_spotrac_page(seed, now,
                               [elements |-> soup, lines |-> lines]))

\* elements were found, Method 1 left no record, and the scan of the lines
\* has returned records
C25_Witness ==
    /\ ppc = "return"
    /\ soup = <<ElemOther>>
    /\ line_no = Len(lines)
    /\ transactions # <<>>

\* line i is a 'Name (Position)' line and not a dated line
IsPlainIdentityLine(i) ==
    /\ IsIdentityLine(i)
    /\ ~DateMatchAt(lines[i], 1)

\* C26: whatever the lines are, the scan goes through all of them, and every
\* well-formed pair among them, a 'Name (Position)' line followed by a line
\* '<Mon> <day>, <year> - <description>', has its record in the result,
\* whatever lines that cannot be parsed stand around it.
C26_PairsSurvive ==
    Scanning =>
        \A i \in 2..line_no :
            (IsPlainIdentityLine(i - 1) /\ IsTransactionLine(i))
            => \E n \in 1..Len(transactions) :
                  /\ LineOf(transactions[n]) = i
                  /\ transactions[n].player = IdentityPlayer(i - 1)

\* the place of a stage in the order of run_daily_automation
StageRank(stage) ==
    CASE stage = "idle" -> 0
      [] stage = "fetch" -> 1
      [] stage = "csv" -> 2
      [] stage = "setup" -> 3
      [] stage = "filter" -> 4
      [] stage = "append" -> 5
      [] stage = "meta" -> 6
      [] stage = "report" -> 7
      [] OTHER -> 8

\* C27: the stages of a run come in the fixed order fetch (with parsing,
\* normalising and the de-duplication of the batch), save, read of the
\* stored ids and filter, append, done, none of them twice; the append is
\* entered only from the filter and is given the frame filtered against the
\* ids read; and a stage that fails ends the run as failed, the read of the
\* stored ids included, so that no append follows a failed read.
C27_StageOrder ==
    /\ [][pc' # pc =>
            IF pc \in {"done", "failed"} THEN pc' = "idle"
            ELSE StageRank(pc') > StageRank(pc)]_vars
    /\ [][pc' = "append" =>
            /\ pc = "filter"
            /\ newDf' = filter_new_transactions(df, existing')]_vars
    /\ [][(pc = "failed" /\ pc' # pc) => pc' = "idle"]_vars
    /\ [][(/\ pc = "filter"
           /\ get_existing_transaction_ids(ws.rows) # <<>>
           /\ existing' = <<>>) => pc' = "failed"]_vars

\* C28: when runs of process_daily_update follow one another without
\* overlapping, no transaction_id comes to stand in two data rows of the
\* worksheet, also when a read of the existing ids fails and when the
\* worksheet was there before without a header row.
C28_SequentialNoDuplicates ==
    NoRepeat(DataIds(ws))

-----------------------------------------------------------------------------
(* Claims about the identity of a transaction *)

\* C29: two transactions of one player on one date whose descriptions
\* differ get different transaction_id values, and both are in the batch
\* after drop_duplicates.
C29_IdentityDistinguishes ==
    pc = "csv" =>
        \A i, j \in 1..Len(raw) :
            (/\ raw[i].player = raw[j].player
             /\ raw[i].date = raw[j].date
             /\ raw[i].description # raw[j].description)
            => /\ raw[i].transaction_id # raw[j].transaction_id
               /\ \E n \in 1..Len(df) : df[n] = raw[i]
               /\ \E n \in 1..Len(df) : df[n] = raw[j]

-----------------------------------------------------------------------------
(* Claims about the pending identity of the scan *)

\* C30: when the scan reads a line that matches the date pattern while an
\* identity is pending, none is pending afterwards, whether or not the line
\* gave a record; when it reads one while none is pending, nothing is
\* emitted and the pending identity stays as it was.
C30_PendingReset ==
    [][(ppc = "method2" /\ line_no' = line_no + 1
          /\ DateDashMatch(lines[line_no'])) =>
         IF Truthy(current_player)
         THEN current_player' = PyNone /\ current_position' = PyNone
         ELSE UNCHANGED <<transactions, current_player, current_position>>]_vars

====
